---- MODULE Spec2Model ----
(***************************************************************************)
(* Rent-versus-sell projector of verify_math.py.                           *)
(*                                                                         *)
(* The script works on Python floats.  Here every quantity is an exact     *)
(* rational <<n, d>> in lowest terms with d > 0, so that +, -, *, / and    *)
(* integer powers are computed as the formulas state them.  Inputs are     *)
(* drawn from values for which every intermediate quantity is rational     *)
(* (an appreciation factor other than 1 is only raised to whole powers)    *)
(* and stays within 32-bit integers.                                       *)
(***************************************************************************)
EXTENDS Integers, Sequences, FiniteSets, TLC

----------------------------------------------------------------------------
(* Exact arithmetic standing for Python's float operators.                 *)

AbsInt(i) == IF i < 0 THEN -i ELSE i

RECURSIVE GCD(_, _)
GCD(a, b) == IF b = 0 THEN a ELSE GCD(b, a % b)

\* lowest terms; d > 0
Norm(n, d) == LET g == GCD(AbsInt(n), d) IN <<n \div g, d \div g>>

\* an int as a number
R(i) == <<i, 1>>

LCM(a, b) == (a \div GCD(a, b)) * b

\* x + y
RAdd(x, y) == LET l == LCM(x[2], y[2])
              IN  Norm(x[1] * (l \div x[2]) + y[1] * (l \div y[2]), l)

\* -x
RNeg(x) == <<-x[1], x[2]>>

\* x - y
RSub(x, y) == RAdd(x, RNeg(y))

\* x * y
RMul(x, y) == LET g1 == GCD(AbsInt(x[1]), y[2])
                  g2 == GCD(AbsInt(y[1]), x[2])
              IN  <<(x[1] \div g1) * (y[1] \div g2), (x[2] \div g2) * (y[2] \div g1)>>

\* x / y, y # 0 (Python raises ZeroDivisionError otherwise)
RDiv(x, y) == RMul(x, IF y[1] > 0 THEN <<y[2], y[1]>> ELSE <<-y[2], -y[1]>>)

\* x < y
RLt(x, y) == LET l == LCM(x[2], y[2])
             IN  x[1] * (l \div x[2]) < y[1] * (l \div y[2])

\* x <= y
RLe(x, y) == ~RLt(y, x)

\* max(x, y): Python returns the first argument unless the second is larger
RMax(x, y) == IF RLt(x, y) THEN y ELSE x

\* abs(x)
RAbs(x) == IF x[1] < 0 THEN RNeg(x) ELSE x

\* x ** k for an int k >= 0
RECURSIVE RPow(_, _)
RPow(x, k) == IF k = 0 THEN R(1) ELSE RMul(x, RPow(x, k - 1))

\* x ** e for a rational exponent e >= 0: a whole power, or a power of 1
PowFrac(x, e) ==
    CASE e[2] = 1 -> RPow(x, e[1])
      [] e[2] # 1 /\ x = R(1) -> R(1)

\* p / 100, the use of a percentage
Pct(p) == RDiv(R(p), R(100))

----------------------------------------------------------------------------
(* calculate_remaining_balance                                             *)

\* the amount repaid instead of the amount remaining
PaidOffSoFar(principal, monthly_rate, total_months, months_paid) ==
    IF monthly_rate = R(0)
    THEN RMul(RDiv(principal, R(total_months)), R(months_paid))
    ELSE LET factor == RPow(RAdd(R(1), monthly_rate), total_months)
             paid_factor == RPow(RAdd(R(1), monthly_rate), months_paid)
             balance == RDiv(RMul(principal, RSub(paid_factor, R(1))),
                             RSub(factor, R(1)))
         IN  RMax(R(0), balance)

calculate_remaining_balance(principal, monthly_rate, total_months, months_paid) ==
    IF monthly_rate = R(0)
    THEN RSub(principal, RMul(RDiv(principal, R(total_months)), R(months_paid)))
    ELSE LET factor == RPow(RAdd(R(1), monthly_rate), total_months)
             paid_factor == RPow(RAdd(R(1), monthly_rate), months_paid)
             balance == RDiv(RMul(principal, RSub(factor, paid_factor)),
                             RSub(factor, R(1)))
         IN  RMax(R(0), balance)

----------------------------------------------------------------------------
(* Program constants kept at the script's values.                          *)

monthly_pi == 2023
monthly_hoa == 150
monthly_taxes == 350
monthly_insurance == 150
monthly_maintenance == 200
property_mgmt_fee == 10
rental_tax_rate == 22
costs_to_sell == 10000
capital_gains_tax == 15

(* Bounds of the explored inputs.                                          *)

MaxYearsToHold == 4
MaxTotalMonths == 4
MaxMonthsPaid == 6

VARIABLES
    \* inputs the projector reads
    purchase_price, elapsed, original_loan_amount, interest_rate,
    total_loan_months, rental_price, annual_rent_increase, costs_to_rent,
    home_appreciation, selling_fees, investment_return, years_to_hold,
    is_primary_residence,
    \* position in the script and the loop variable
    pc, year,
    \* loop-carried accumulators
    cumulative_rental_cash_flow, cumulative_opportunity_cost,
    \* values of the current iteration
    home_value, loan_balance, equity,
    annual_rental_income, annual_mgmt_fee, gross_rental_profit,
    taxable_rental_income, rental_tax, net_rental_cash_flow, year_cash_flow,
    year_opportunity_cost, rental_net_worth,
    capital_gain, capital_gains_tax_owed, invested_value, better,
    \* sanity check 5
    year1_rent, year1_expenses, check5,
    \* one activation of calculate_remaining_balance and the one before it
    call, last

inputs == <<purchase_price, elapsed, original_loan_amount, interest_rate,
            total_loan_months, rental_price, annual_rent_increase,
            costs_to_rent, home_appreciation, selling_fees, investment_return,
            years_to_hold, is_primary_residence>>

accumulators == <<cumulative_rental_cash_flow, cumulative_opportunity_cost>>

snapshot == <<home_value, loan_balance, equity, annual_rental_income,
              annual_mgmt_fee, gross_rental_profit, taxable_rental_income,
              rental_tax, net_rental_cash_flow, year_cash_flow,
              year_opportunity_cost, rental_net_worth, capital_gain,
              capital_gains_tax_owed, invested_value, better>>

check5vars == <<year1_rent, year1_expenses, check5>>

vars == <<inputs, pc, year, accumulators, snapshot, check5vars, call, last>>

----------------------------------------------------------------------------
(* Derived values computed once, outside the loop.                         *)

monthly_rate == RDiv(Pct(interest_rate), R(12))

monthly_ownership_cost ==
    monthly_pi + monthly_taxes + monthly_insurance + monthly_hoa + monthly_maintenance

\* (purchase_price * 0.8) / 27.5
annual_depreciation == RDiv(RMul(R(purchase_price), <<4, 5>>), <<55, 2>>)

----------------------------------------------------------------------------
(* The formulas of one loop iteration, for year y.                         *)

FutureMonths(y) == elapsed + (y * 12)

YearsFromPurchase(y) == RDiv(R(FutureMonths(y)), R(12))

HomeValue(y) ==
    RMul(R(purchase_price),
         PowFrac(RAdd(R(1), Pct(home_appreciation)), YearsFromPurchase(y)))

LoanBalance(y) ==
    calculate_remaining_balance(R(original_loan_amount), monthly_rate,
                                total_loan_months, FutureMonths(y))

\* home value plus, not minus, the loan
EquityAdded(hv, lb) == RAdd(hv, lb)

Equity(hv, lb) == RSub(hv, lb)

CurrentRent(y) ==
    RMul(R(rental_price), RPow(RAdd(R(1), Pct(annual_rent_increase)), y))

AnnualRentalIncome(y) == RMul(CurrentRent(y), R(12))

AnnualMgmtFee(y) == RMul(AnnualRentalIncome(y), Pct(property_mgmt_fee))

AnnualOwnershipCosts == R(monthly_ownership_cost * 12)

GrossRentalProfit(y) ==
    RSub(RSub(AnnualRentalIncome(y), AnnualMgmtFee(y)), AnnualOwnershipCosts)

TaxableRentalIncome(y) == RSub(GrossRentalProfit(y), annual_depreciation)

\* the tax without its floor: a loss is refunded
RentalTaxRefunding(taxable) == RMul(taxable, Pct(rental_tax_rate))

RentalTax(taxable) == RMax(R(0), RMul(taxable, Pct(rental_tax_rate)))

NetRentalCashFlow(y) ==
    RSub(GrossRentalProfit(y), RentalTax(TaxableRentalIncome(y)))

\* year 0 accumulated like any other year
CumulativeCashFlowEveryYear(cum, y, net) == RAdd(cum, net)

CumulativeCashFlow(cum, y, net) == IF y = 0 THEN cum ELSE RAdd(cum, net)

YearOpportunityCost(y, net) ==
    IF y > 0 /\ RLt(net, R(0)) THEN RAbs(net) ELSE R(0)

\* compounding only in the years that add a shortfall
OpportunityCostNoIdleCompounding(opp, y, yoc) ==
    IF y > 0 /\ yoc # R(0)
    THEN RAdd(RMul(opp, RAdd(R(1), Pct(investment_return))), yoc)
    ELSE opp

CumulativeOpportunityCost(opp, y, yoc) ==
    IF y > 0
    THEN RAdd(RMul(opp, RAdd(R(1), Pct(investment_return))), yoc)
    ELSE opp

\* the opportunity cost netted out of the rent scenario
RentalNetWorthNetOfOpportunity(eq, cum) ==
    RSub(RAdd(eq, cum), cumulative_opportunity_cost')

RentalNetWorth(eq, cum) == RAdd(eq, cum)

SellingCosts(sale_price) ==
    RAdd(RMul(sale_price, Pct(selling_fees)), R(costs_to_sell))

\* the exclusion ending a year early
CapitalGainsTaxOwedTwoYears(gain, y) ==
    IF RLt(R(0), gain)
    THEN LET taxable_gain ==
                 IF is_primary_residence /\ y < 3
                 THEN RMax(R(0), RSub(gain, R(500000)))
                 ELSE gain
         IN  RMul(taxable_gain, Pct(capital_gains_tax))
    ELSE R(0)

CapitalGainsTaxOwed(gain, y) ==
    IF RLt(R(0), gain)
    THEN LET taxable_gain ==
                 IF is_primary_residence /\ y <= 3
                 THEN RMax(R(0), RSub(gain, R(500000)))
                 ELSE gain
         IN  RMul(taxable_gain, Pct(capital_gains_tax))
    ELSE R(0)

InvestedValue(net_after_tax_proceeds, y) ==
    RMul(net_after_tax_proceeds,
         RPow(RAdd(R(1), Pct(investment_return)), years_to_hold - y))

\* ties going to RENT
BetterTieRent(rnw, inv) == IF RLe(inv, rnw) THEN "RENT" ELSE "SELL"

Better(rnw, inv) == IF RLt(inv, rnw) THEN "RENT" ELSE "SELL"

----------------------------------------------------------------------------
(* The script: the year loop, then sanity check 5.  Sanity checks 1 to 4   *)
(* recompute year 0, 5 and 10 figures into names nothing later reads.      *)

YearIteration(y) ==
    LET hv == HomeValue(y)
        lb == LoanBalance(y)
        eq == Equity(hv, lb)
        net == NetRentalCashFlow(y)
        cum == CumulativeCashFlow(cumulative_rental_cash_flow, y, net)
        yoc == YearOpportunityCost(y, net)
        sale_price == hv
        selling_costs == SellingCosts(sale_price)
        net_sale_proceeds == RSub(RSub(sale_price, lb), selling_costs)
        gain == RSub(sale_price, R(purchase_price))
        tax == CapitalGainsTaxOwed(gain, y)
        net_after_tax_proceeds == RSub(net_sale_proceeds, tax)
        inv == InvestedValue(net_after_tax_proceeds, y)
    IN  /\ year' = y
        /\ home_value' = hv
        /\ loan_balance' = lb
        /\ equity' = eq
        /\ annual_rental_income' = AnnualRentalIncome(y)
        /\ annual_mgmt_fee' = AnnualMgmtFee(y)
        /\ gross_rental_profit' = GrossRentalProfit(y)
        /\ taxable_rental_income' = TaxableRentalIncome(y)
        /\ rental_tax' = RentalTax(TaxableRentalIncome(y))
        /\ net_rental_cash_flow' = net
        /\ year_cash_flow' = IF y = 0 THEN R(-costs_to_rent) ELSE net
        /\ cumulative_rental_cash_flow' = cum
        /\ year_opportunity_cost' = yoc
        /\ cumulative_opportunity_cost' =
               CumulativeOpportunityCost(cumulative_opportunity_cost, y, yoc)
        /\ rental_net_worth' = RentalNetWorth(eq, cum)
        /\ capital_gain' = gain
        /\ capital_gains_tax_owed' = tax
        /\ invested_value' = inv
        /\ better' = Better(RentalNetWorth(eq, cum), inv)

\* for year in range(0, years_to_hold + 1): the first iteration
FirstYear ==
    /\ pc = "begin"
    /\ 0 <= years_to_hold
    /\ YearIteration(0)
    /\ pc' = "loop"
    /\ UNCHANGED <<inputs, check5vars, call, last>>

\* the following iterations
NextYear ==
    /\ pc = "loop"
    /\ year + 1 <= years_to_hold
    /\ YearIteration(year + 1)
    /\ pc' = "loop"
    /\ UNCHANGED <<inputs, check5vars, call, last>>

\* Check 5, reached when the loop is exhausted
SanityCheck5 ==
    /\ pc = "loop"
    /\ year + 1 > years_to_hold
    /\ LET y1r == RMul(R(rental_price), R(12))
           y1e == RAdd(R(monthly_ownership_cost * 12),
                       RMul(y1r, Pct(property_mgmt_fee)))
       IN  /\ year1_rent' = y1r
           /\ year1_expenses' = y1e
           /\ check5' = IF RLt(y1e, y1r) THEN "POSITIVE CASH FLOW"
                                         ELSE "NEGATIVE CASH FLOW"
    /\ pc' = "done"
    /\ UNCHANGED <<inputs, year, accumulators, snapshot, call, last>>

Next == FirstYear \/ NextYear \/ SanityCheck5

----------------------------------------------------------------------------
(* Initial states: the script's names before the loop, over input values   *)
(* for which all arithmetic is exact.                                      *)

NoCall == [principal |-> R(0), monthly_rate |-> R(0), total_months |-> 0,
           months_paid |-> 0, result |-> R(0), returned |-> FALSE]

\* interest-free loans, repaid inside or beyond the projected years
InterestFreeLoan ==
    /\ interest_rate = 0
    /\ original_loan_amount = 360000
    /\ total_loan_months \in {24, 360}
    /\ years_to_hold \in 0..MaxYearsToHold
    /\ \/ home_appreciation = 0 /\ elapsed \in {0, 12, 49}
       \/ home_appreciation = 50 /\ elapsed \in {0, 12}
       \/ home_appreciation = 100 /\ elapsed = 0

\* a loan at 100% a month over one year
InterestBearingLoan ==
    /\ interest_rate = 1200
    /\ original_loan_amount = 4095
    /\ total_loan_months = 12
    /\ years_to_hold \in {0, 1}
    /\ \/ home_appreciation = 0 /\ elapsed \in {0, 5}
       \/ home_appreciation \in {50, 100} /\ elapsed = 0

\* the names bound before the loop starts
BeforeLoop ==
    /\ year = 0
    /\ cumulative_rental_cash_flow = R(-costs_to_rent)
    /\ cumulative_opportunity_cost = R(0)
    /\ home_value = R(0) /\ loan_balance = R(0) /\ equity = R(0)
    /\ annual_rental_income = R(0) /\ annual_mgmt_fee = R(0)
    /\ gross_rental_profit = R(0) /\ taxable_rental_income = R(0)
    /\ rental_tax = R(0) /\ net_rental_cash_flow = R(0)
    /\ year_cash_flow = R(0) /\ year_opportunity_cost = R(0)
    /\ rental_net_worth = R(0) /\ capital_gain = R(0)
    /\ capital_gains_tax_owed = R(0) /\ invested_value = R(0)
    /\ better = ""
    /\ year1_rent = R(0) /\ year1_expenses = R(0) /\ check5 = ""

Init ==
    /\ purchase_price = 352000
    /\ InterestFreeLoan \/ InterestBearingLoan
    /\ rental_price \in {1500, 4000}
    /\ annual_rent_increase \in {0, 100}
    /\ costs_to_rent \in {5000, 10000}
    /\ selling_fees \in {0, 6}
    /\ investment_return \in {0, 100}
    /\ is_primary_residence \in BOOLEAN
    /\ pc = "begin"
    /\ BeforeLoop
    /\ call = NoCall /\ last = NoCall

Spec == Init /\ [][Next]_vars


----------------------------------------------------------------------------
(* calculate_remaining_balance on its own: one loan, called for any number *)
(* of months paid, each call remembered together with the one before it.   *)

MonthlyRates == {R(0), <<1, 10>>, <<1, 2>>, R(1)}

Principals == {1, 1200}

CallRemainingBalance ==
    /\ pc = "calls"
    /\ \E p \in 0..MaxMonthsPaid :
          call' = [call EXCEPT
                     !.months_paid = p,
                     !.result = calculate_remaining_balance(
                                    call.principal, call.monthly_rate,
                                    call.total_months, p),
                     !.returned = TRUE]
    /\ last' = call
    /\ UNCHANGED <<inputs, pc, year, accumulators, snapshot, check5vars>>

NextBalance == CallRemainingBalance

InitBalance ==
    /\ purchase_price = 352000
    /\ interest_rate = 0 /\ original_loan_amount = 360000
    /\ total_loan_months = 360 /\ years_to_hold = 0
    /\ home_appreciation = 0 /\ elapsed = 0
    /\ rental_price = 1500 /\ annual_rent_increase = 0
    /\ costs_to_rent = 5000 /\ selling_fees = 0 /\ investment_return = 0
    /\ is_primary_residence = TRUE
    /\ pc = "calls"
    /\ BeforeLoop
    /\ \E P \in Principals, r \in MonthlyRates, n \in 1..MaxTotalMonths :
          call = [principal |-> R(P), monthly_rate |-> r, total_months |-> n,
                  months_paid |-> 0, result |-> R(0), returned |-> FALSE]
    /\ last = NoCall

SpecBalance == InitBalance /\ [][NextBalance]_vars

----------------------------------------------------------------------------
(* C1: calculate_remaining_balance returns a value >= 0 for every valid    *)
(* input (principal > 0, monthly rate >= 0 including 0, total_months > 0,  *)
(* months_paid >= 0 including months_paid > total_months).                 *)
BalanceNeverNegative ==
    call.returned => RLe(R(0), call.result)

(* C2: for a fixed principal, rate and term the remaining balance is       *)
(* non-increasing in months_paid: of two calls, the one with at least as   *)
(* many months paid returns at most the balance of the other.              *)
BalanceNonIncreasing ==
    (call.returned /\ last.returned /\ last.months_paid <= call.months_paid)
        => RLe(call.result, last.result)

\* two calls of an interest-bearing loan, the later one past the term
BalanceNonIncreasingWitness ==
    /\ call.returned /\ last.returned
    /\ call.monthly_rate # R(0)
    /\ last.months_paid < call.total_months
    /\ call.months_paid > call.total_months
    /\ RLt(call.result, last.result)

----------------------------------------------------------------------------
(* Claims about the year loop.                                             *)

InLoop == pc \in {"loop", "done"}

\* the net rental cash flows of years 1..k, added in the loop's order
RECURSIVE SumNetCashFlow(_)
SumNetCashFlow(k) ==
    IF k = 0 THEN R(0) ELSE RAdd(SumNetCashFlow(k - 1), NetRentalCashFlow(k))

(* C3: the cumulative rental cash flow starts at -costs_to_rent, is left   *)
(* unchanged by the year-0 iteration, whose reported cash flow is          *)
(* -costs_to_rent, and after the iteration of year k >= 1 equals           *)
(* -costs_to_rent plus the net rental cash flows of years 1..k.            *)
CumulativeCashFlowIsSeedPlusSum ==
    /\ pc = "begin" => cumulative_rental_cash_flow = R(-costs_to_rent)
    /\ (InLoop /\ year = 0) =>
          /\ cumulative_rental_cash_flow = R(-costs_to_rent)
          /\ year_cash_flow = R(-costs_to_rent)
    /\ (InLoop /\ year >= 1) =>
          /\ cumulative_rental_cash_flow =
                 RAdd(R(-costs_to_rent), SumNetCashFlow(year))
          /\ year_cash_flow = net_rental_cash_flow

\* year 0 has a non-zero formula value and later years have been added
CumulativeCashFlowWitness ==
    /\ pc = "loop" /\ year >= 2
    /\ NetRentalCashFlow(0) # R(0)
    /\ cumulative_rental_cash_flow # R(-costs_to_rent)

(* C4: in every projected year the rent-scenario net worth is equity (home *)
(* value minus loan balance) plus the cumulative rental cash flow of that  *)
(* same iteration; the cumulative opportunity cost is not subtracted.      *)
RentNetWorthIsEquityPlusCashFlow ==
    InLoop =>
        /\ equity = RSub(home_value, loan_balance)
        /\ rental_net_worth = RAdd(equity, cumulative_rental_cash_flow)

\* a year in which an opportunity cost is outstanding
RentNetWorthWitness ==
    /\ pc = "loop" /\ year >= 1
    /\ RLt(R(0), cumulative_opportunity_cost)
    /\ rental_net_worth = RAdd(equity, cumulative_rental_cash_flow)

(* C5: the recommendation is "RENT" exactly when the rent-scenario net     *)
(* worth is strictly greater than the invested value, "SELL" otherwise;    *)
(* a tie gives "SELL".                                                     *)
RecommendationIsStrict ==
    InLoop =>
        /\ better \in {"RENT", "SELL"}
        /\ better = "RENT" <=> RLt(invested_value, rental_net_worth)

\* a tie
RecommendationTieWitness ==
    /\ pc = "loop"
    /\ rental_net_worth = invested_value
    /\ better = "SELL"

(* C6: capital-gains tax owed is the rate times the taxable gain, which is *)
(* 0 for a gain <= 0, max(0, gain - 500000) for a gain > 0 of a primary    *)
(* residence in a year <= 3, and the full gain otherwise; so the tax is 0  *)
(* for a gain <= 0 and for an excluded gain below 500000.                  *)
CapitalGainsTaxIsPiecewise ==
    InLoop =>
        LET taxable_gain ==
                IF RLe(capital_gain, R(0)) THEN R(0)
                ELSE IF is_primary_residence /\ year <= 3
                     THEN RMax(R(0), RSub(capital_gain, R(500000)))
                     ELSE capital_gain
        IN  /\ capital_gain = RSub(home_value, R(purchase_price))
            /\ capital_gains_tax_owed = RMul(taxable_gain, Pct(capital_gains_tax))
            /\ RLe(capital_gain, R(0)) => capital_gains_tax_owed = R(0)
            /\ (is_primary_residence /\ year <= 3
                    /\ RLt(capital_gain, R(500000)))
                  => capital_gains_tax_owed = R(0)

\* year 3 of a primary residence with a gain above the exclusion
CapitalGainsTaxWitness ==
    /\ pc = "loop" /\ year = 3 /\ is_primary_residence
    /\ RLt(R(500000), capital_gain)
    /\ RLt(R(0), capital_gains_tax_owed)
    /\ RLt(capital_gains_tax_owed, RMul(capital_gain, Pct(capital_gains_tax)))

(* C7: the rental tax is >= 0 and the net rental cash flow is the gross    *)
(* rental profit minus that tax, so it never exceeds the gross profit, and *)
(* equals it when the taxable rental income is <= 0.                       *)
RentalTaxNeverRefunds ==
    InLoop =>
        /\ RLe(R(0), rental_tax)
        /\ taxable_rental_income = RSub(gross_rental_profit, annual_depreciation)
        /\ net_rental_cash_flow = RSub(gross_rental_profit, rental_tax)
        /\ RLe(net_rental_cash_flow, gross_rental_profit)
        /\ RLe(taxable_rental_income, R(0))
              => net_rental_cash_flow = gross_rental_profit

\* a year with a taxable loss
RentalTaxWitness ==
    /\ pc = "loop"
    /\ RLt(taxable_rental_income, R(0))
    /\ rental_tax = R(0)
    /\ net_rental_cash_flow = gross_rental_profit

(* C8: with an appreciation rate > 0 and a purchase price > 0, equity is   *)
(* non-decreasing from each projected year to the next.                    *)
EquityNonDecreasing ==
    [][(pc = "loop" /\ pc' = "loop" /\ home_appreciation > 0
            /\ purchase_price > 0)
          => RLe(equity, equity')]_vars

\* a later year of an appreciating home whose loan is being paid down
EquityWitness ==
    /\ pc = "loop" /\ year >= 1 /\ home_appreciation > 0
    /\ RLt(R(0), loan_balance)
    /\ RLt(loan_balance, LoanBalance(year - 1))
    /\ RLt(Equity(HomeValue(year - 1), LoanBalance(year - 1)), equity)

(* C9: the cumulative opportunity cost is 0 after the year-0 iteration;    *)
(* each later iteration sets it to its previous value times                *)
(* (1 + investment_return/100) plus the year's shortfall, which is the     *)
(* absolute value of a negative net rental cash flow and 0 otherwise; it   *)
(* is never negative.                                                      *)
OpportunityCostCompounds ==
    [][/\ (pc = "begin" /\ pc' = "loop") => cumulative_opportunity_cost' = R(0)
       /\ (pc = "loop" /\ pc' = "loop") =>
             LET shortfall ==
                     IF RLt(net_rental_cash_flow', R(0))
                     THEN RAbs(net_rental_cash_flow') ELSE R(0)
             IN  /\ cumulative_opportunity_cost' =
                        RAdd(RMul(cumulative_opportunity_cost,
                                  RAdd(R(1), Pct(investment_return))),
                             shortfall)
                 /\ RLe(R(0), cumulative_opportunity_cost')]_vars

\* an outstanding cost compounded in a year without a shortfall
OpportunityCostWitness ==
    /\ pc = "loop" /\ year >= 2 /\ investment_return > 0
    /\ RLe(R(0), net_rental_cash_flow)
    /\ RLt(R(0), cumulative_opportunity_cost)

(* C10: sanity check 5's "Year 1" rental income, expenses and gross profit *)
(* equal the annual rental income, annual expenses and gross rental profit *)
(* of the loop's year 1, for any annual rent increase >= 0.                *)
Check5RestatesYear1 ==
    (pc = "done" /\ years_to_hold >= 1) =>
        /\ year1_rent = AnnualRentalIncome(1)
        /\ year1_expenses = RAdd(AnnualOwnershipCosts, AnnualMgmtFee(1))
        /\ RSub(year1_rent, year1_expenses) = GrossRentalProfit(1)

====
